---- MODULE Spec2Model ----
(***************************************************************************)
(* chat4all: the metadata store (conversations, sequencer, identities),    *)
(* the ingestion worker, the fan-out dispatcher, the delivery worker, the  *)
(* status processor and the socket gateway, modelled from the Python       *)
(* sources.                                                                *)
(*                                                                         *)
(* The relational store runs each repository method in one transaction at *)
(* READ COMMITTED: a statement sees what is committed when it runs, the    *)
(* writes of a transaction become visible at its commit, and a rollback    *)
(* discards them.  The variables below hold the COMMITTED rows; what a     *)
(* transaction has written and not yet committed lives in its call record. *)
(***************************************************************************)
EXTENDS Integers, FiniteSets, Sequences, TLC

(* ---------------------------- bounds ----------------------------------- *)
NumProcs == 2        \* concurrent gRPC handler threads of the metadata service
MaxConvs == 2        \* conversation ids 1..MaxConvs
MaxMsgs  == 2        \* message ids 1..MaxMsgs
NumUsers == 3        \* user ids 1..NumUsers

Procs   == 1..NumProcs
ConvIds == 1..MaxConvs
MsgIds  == 1..MaxMsgs
Users   == 1..NumUsers

NoConv == 0
NoMsg  == 0
NoSeq  == 0

VARIABLES
    conv_type,              \* conversations.type per id, "none" when no row
    last_sequence_number,   \* conversations.last_sequence_number
    conversation_members,   \* conversation_members rows, per conversation
    message_sequences_log,  \* rows (message_id, conversation_id, sequence_number)
    seq_call,               \* per handler thread: its get_or_create_sequence call
    seq_returned,           \* history: <<conversation, message, sequence>> returned OK
    create_call,            \* per handler thread: its create_conversation call
    create_response,        \* the latest CreateConversation response sent
    first_private_id,       \* history: the id first returned for a private pair {a, b}
    users_directory,        \* users_directory rows: the username per user, if any
    user_identities,        \* user_identities rows: external_id per (user, channel)
    identities_response,    \* the latest GetUserIdentities response sent
    clock,                  \* the API's wall clock (datetime.now)
    submit_topic,           \* events published to the submit topic
    persisted_topic,        \* events published to the persisted topic
    messages,               \* rows of the message log's messages table
    worker,                 \* per ingestion worker: position, event in hand, dedup deque
    dispatched,             \* history: persisted events the dispatcher has handled
    replayed,               \* history: persisted events it has handled more than once
    outbound_topic,         \* delivery jobs published, per topic of CHANNEL_TOPIC_MAP
    handled_jobs,           \* history: jobs a consumer of their topic has handled
    user_inbox,             \* rows of the message log's user_inbox table
    pubsub,                 \* history: payloads published, with their pub/sub channel
    subscribed,             \* users with a live gateway session subscribed to user:<id>
    sub_pending,            \* per user: payloads its subscription holds, not yet sent
    socket_sent,            \* per user: payloads sent down its socket
    push_topic,             \* events published to the push topic
    status_topic,           \* events published to the status topic
    status_done,            \* history: status events the status processor has handled
    ingest_committed,       \* history: submitted records the ingestion group has committed
    delivery_log,           \* the records of the delivery worker's partition, in offset order
    delivery_position,      \* offset of the last record the delivery consumer has fetched
    delivery_committed,     \* offset the delivery worker's group has committed
    delivery_outcomes,      \* history: how the handling of each fetched offset ended
    fanout_committed,       \* history: persisted records the dispatcher's group has committed
    sessions,               \* per gateway websocket: state, token, user, payloads held and sent
    active_connections      \* ConnectionManager.active_connections: websockets per user key

seqVars == <<seq_call, seq_returned>>

createVars == <<create_call, create_response, first_private_id>>

identVars == <<users_directory, user_identities, identities_response>>

ingestVars == <<clock, submit_topic, persisted_topic, messages, worker>>

fanoutVars == <<dispatched, replayed, outbound_topic, handled_jobs, user_inbox, push_topic>>

socketVars == <<pubsub, subscribed, sub_pending, socket_sent>>

statusVars == <<status_topic, status_done>>

offsetVars == <<delivery_log, delivery_position, delivery_committed, delivery_outcomes,
                fanout_committed>>

sessionVars == <<sessions, active_connections>>

afterIngestVars == <<fanoutVars, socketVars, statusVars, offsetVars, sessionVars>>

downVars == <<ingest_committed, afterIngestVars>>

vars == <<conv_type, last_sequence_number, conversation_members,
          message_sequences_log, seq_call, seq_returned,
          create_call, create_response, first_private_id,
          users_directory, user_identities, identities_response,
          clock, submit_topic, persisted_topic, messages, worker,
          dispatched, replayed, outbound_topic, handled_jobs, user_inbox,
          push_topic, pubsub, subscribed, sub_pending, socket_sent,
          status_topic, status_done, ingest_committed,
          delivery_log, delivery_position, delivery_committed, delivery_outcomes,
          fanout_committed, sessions, active_connections>>

storeVars == <<conv_type, last_sequence_number, conversation_members,
               message_sequences_log>>

(* ------------------------- metadata store ------------------------------ *)
ConversationExistsAlways(c) == c \in ConvIds

\* UPDATE ... WHERE conversation_id = c RETURNING ...: fetchone() is a row
ConversationExists(c) == c \in ConvIds /\ conv_type[c] # "none"

LogRow(m, c, s) == [message_id |-> m, conversation_id |-> c, sequence_number |-> s]

LogLookupMiss(m) == {}

\* SELECT sequence_number FROM message_sequences_log WHERE message_id = m
LogLookup(m) == {r \in message_sequences_log : r.message_id = m}

\* The sequences the log holds for conversation c.
AssignedSequences(c) ==
    {r.sequence_number : r \in {x \in message_sequences_log : x.conversation_id = c}}

\* caller of a sequencer call that is not an ingestion worker
NoWorker == 0

IdleSeqCall ==
    [pc |-> "idle", conversation_id |-> NoConv, message_id |-> NoMsg,
     new_sequence |-> NoSeq, result |-> NoSeq, error |-> "", prior |-> {},
     caller |-> NoWorker]

\* A transaction holds the row lock of the conversation it has UPDATEd until
\* it commits or rolls back.
HoldsRowLock(q, c) ==
    /\ seq_call[q].pc \in {"insert", "commit"}
    /\ seq_call[q].conversation_id = c

NoRowLock(p, c) == FALSE

\* UPDATE conversations ... WHERE conversation_id = c must wait while another
\* transaction holds the lock of that row.
RowLockedByOther(p, c) == \E q \in Procs \ {p} : HoldsRowLock(q, c)

\* message_id is the key of message_sequences_log: a second row for the same
\* message_id is rejected.
UniqueViolation(m) == \E r \in message_sequences_log : r.message_id = m

\* ... and the INSERT waits while another open transaction has inserted the
\* same key.
PendingInsertByOther(p, m) ==
    \E q \in Procs \ {p} : seq_call[q].pc = "commit" /\ seq_call[q].message_id = m

\* conn.rollback(): the counter a transaction had incremented is discarded.
AfterRollbackKeepsUpdate(p) ==
    IF seq_call[p].pc \in {"insert", "commit"}
    THEN [last_sequence_number EXCEPT ![seq_call[p].conversation_id] = seq_call[p].new_sequence]
    ELSE last_sequence_number

AfterRollback(p) == last_sequence_number

\* grpc status of GetNextSequenceNumber for the repository's outcome
GrpcStatus(error) ==
    CASE error = "" -> "OK"
      [] error = "ConversationNotFoundError" -> "NOT_FOUND"
      [] OTHER -> "INTERNAL"

(* ------------------ get_or_create_sequence, step by step --------------- *)
\* GetNextSequenceNumber(conversation_id, message_id) arrives on thread p.
NewSeqCall(c, m, w) ==
    [pc |-> "select", conversation_id |-> c, message_id |-> m,
     new_sequence |-> NoSeq, result |-> NoSeq, error |-> "",
     prior |-> {t[3] : t \in {x \in seq_returned : x[1] = c /\ x[2] = m}},
     caller |-> w]

\* A handler thread that is free to take a request.
FreeThread(p) ==
    \/ seq_call[p].pc = "idle"
    \/ seq_call[p].pc = "done" /\ seq_call[p].caller = NoWorker

SeqBegin(p, c, m) ==
    /\ FreeThread(p)
    /\ seq_call' = [seq_call EXCEPT ![p] = NewSeqCall(c, m, NoWorker)]
    /\ UNCHANGED <<downVars, storeVars, seq_returned, createVars, identVars, ingestVars>>

\* SELECT on the log; an existing row is returned at once.
SeqSelect(p) ==
    /\ seq_call[p].pc = "select"
    /\ IF LogLookup(seq_call[p].message_id) # {}
       THEN \E r \in LogLookup(seq_call[p].message_id) :
              /\ seq_call' = [seq_call EXCEPT ![p].pc = "done",
                                              ![p].result = r.sequence_number]
              /\ seq_returned' = seq_returned \cup
                    {<<seq_call[p].conversation_id, seq_call[p].message_id, r.sequence_number>>}
       ELSE /\ seq_call' = [seq_call EXCEPT ![p].pc = "update"]
            /\ UNCHANGED seq_returned
    /\ UNCHANGED <<downVars, storeVars, createVars, identVars, ingestVars>>

\* UPDATE conversations SET last_sequence_number = last_sequence_number + 1
\* ... RETURNING last_sequence_number; no row: ConversationNotFoundError.
SeqUpdate(p) ==
    LET c == seq_call[p].conversation_id IN
    /\ seq_call[p].pc = "update"
    /\ ~RowLockedByOther(p, c)
    /\ IF ConversationExists(c)
       THEN /\ seq_call' = [seq_call EXCEPT ![p].pc = "insert",
                               ![p].new_sequence = last_sequence_number[c] + 1]
            /\ UNCHANGED last_sequence_number
       ELSE /\ last_sequence_number' = AfterRollback(p)
            /\ seq_call' = [seq_call EXCEPT ![p].pc = "done",
                               ![p].error = "ConversationNotFoundError"]
    /\ UNCHANGED <<downVars, conv_type, conversation_members, message_sequences_log, seq_returned,
                   createVars, identVars, ingestVars>>

\* INSERT INTO message_sequences_log; a duplicate key raises, the context
\* manager rolls back and the method raises RepositoryError.
SeqInsert(p) ==
    LET m == seq_call[p].message_id IN
    /\ seq_call[p].pc = "insert"
    /\ ~PendingInsertByOther(p, m)
    /\ IF UniqueViolation(m)
       THEN /\ last_sequence_number' = AfterRollback(p)
            /\ seq_call' = [seq_call EXCEPT ![p].pc = "done",
                               ![p].new_sequence = NoSeq,
                               ![p].error = "UniqueViolation"]
       ELSE /\ seq_call' = [seq_call EXCEPT ![p].pc = "commit"]
            /\ UNCHANGED last_sequence_number
    /\ UNCHANGED <<downVars, conv_type, conversation_members, message_sequences_log, seq_returned,
                   createVars, identVars, ingestVars>>

\* conn.commit(); return new_sequence
SeqCommit(p) ==
    LET c == seq_call[p].conversation_id
        m == seq_call[p].message_id
        s == seq_call[p].new_sequence IN
    /\ seq_call[p].pc = "commit"
    /\ last_sequence_number' = [last_sequence_number EXCEPT ![c] = s]
    /\ message_sequences_log' = message_sequences_log \cup {LogRow(m, c, s)}
    /\ seq_call' = [seq_call EXCEPT ![p].pc = "done", ![p].result = s]
    /\ seq_returned' = seq_returned \cup {<<c, m, s>>}
    /\ UNCHANGED <<downVars, conv_type, conversation_members, createVars, identVars, ingestVars>>

\* Any statement (or the commit) may raise psycopg2.Error: rollback,
\* RepositoryError.
SeqStoreError(p) ==
    /\ seq_call[p].pc \in {"select", "update", "insert", "commit"}
    /\ last_sequence_number' = AfterRollback(p)
    /\ seq_call' = [seq_call EXCEPT ![p].pc = "done",
                       ![p].new_sequence = NoSeq,
                       ![p].error = "OperationalError"]
    /\ UNCHANGED <<downVars, conv_type, conversation_members, message_sequences_log, seq_returned,
                   createVars, identVars, ingestVars>>

SeqStep(p) ==
    \/ SeqSelect(p)
    \/ SeqUpdate(p)
    \/ SeqInsert(p)
    \/ SeqCommit(p)
    \/ SeqStoreError(p)


(* ----------------- create_conversation, step by step ------------------- *)
MaxMembers == 3      \* longest member_ids list of a request

ConvTypes == {"private", "group"}

\* member_ids of a CreateConversation request as the API router sends it,
\* list(set(request.members + [user_id])): a non-empty list of distinct
\* users in any order.
MemberLists ==
    {ms \in UNION {[1..n -> Users] : n \in 1..MaxMembers} :
        \A i, j \in 1..Len(ms) : i # j => ms[i] # ms[j]}

\* list(set(members))
UniqueMembers(ms) == {ms[i] : i \in 1..Len(ms)}

PrivatePairs == {k \in SUBSET Users : Cardinality(k) = 2}

IdleCreateCall == [pc |-> "idle", type |-> "", members |-> {}]

\* A response with the request it answers: members is the set of the
\* request's member_ids, existing tells that the id came from the lookup,
\* prior is the id an earlier request for the same pair had been given.
NoResponse ==
    [type |-> "", members |-> {}, result |-> NoConv,
     existing |-> FALSE, prior |-> NoConv]

\* find_private_conversation: the conversations the query's join matches;
\* LIMIT 1 without ORDER BY returns any one of them.
find_private_conversation(a, b) ==
    {c \in ConvIds : /\ a \in conversation_members[c]
                     /\ b \in conversation_members[c]
                     /\ conv_type[c] = "private"}

\* uuid.uuid4(): an identifier no conversation has yet
FreshIds == {c \in ConvIds : conv_type[c] = "none"}

NewId == CHOOSE c \in FreshIds : \A d \in FreshIds : c <= d

RecordFirst(k, id) ==
    IF k \in PrivatePairs /\ first_private_id[k] = NoConv
    THEN [first_private_id EXCEPT ![k] = id]
    ELSE first_private_id

PriorOf(k) == IF k \in PrivatePairs THEN first_private_id[k] ELSE NoConv

\* INSERT INTO conversations, INSERT INTO conversation_members, commit: one
\* transaction, its rows visible to others at the commit.
InsertConversation(id, t, members) ==
    /\ conv_type' = [conv_type EXCEPT ![id] = t]
    /\ last_sequence_number' = [last_sequence_number EXCEPT ![id] = 0]
    /\ conversation_members' = [conversation_members EXCEPT ![id] = members]
    /\ UNCHANGED message_sequences_log

\* CreateConversation(private, [a, b]) on thread p: the lookup runs first, in
\* a transaction of its own; an existing chat is returned, otherwise the
\* handler goes on to the insert.
CreatePrivateFind(p, ms) ==
    LET found == find_private_conversation(ms[1], ms[2]) IN
    /\ create_call[p].pc = "idle"
    /\ Len(ms) = 2
    /\ IF found # {}
       THEN \E c \in found :
              /\ create_response' =
                    [type |-> "private", members |-> UniqueMembers(ms),
                     result |-> c, existing |-> TRUE,
                     prior |-> PriorOf(UniqueMembers(ms))]
              /\ first_private_id' = RecordFirst(UniqueMembers(ms), c)
              /\ UNCHANGED create_call
       ELSE /\ create_call' = [create_call EXCEPT ![p] =
                  [pc |-> "insert", type |-> "private", members |-> UniqueMembers(ms)]]
            /\ UNCHANGED <<downVars, create_response, first_private_id>>
    /\ UNCHANGED <<downVars, storeVars, seqVars, identVars, ingestVars>>

\* ... the insert of a private request whose lookup found nothing.
CreatePrivateInsert(p) ==
    /\ create_call[p].pc = "insert"
    /\ FreshIds # {}
    /\ InsertConversation(NewId, create_call[p].type, create_call[p].members)
    /\ create_response' =
          [type |-> "private", members |-> create_call[p].members,
           result |-> NewId, existing |-> FALSE, prior |-> NoConv]
    /\ first_private_id' = RecordFirst(create_call[p].members, NewId)
    /\ create_call' = [create_call EXCEPT ![p] = IdleCreateCall]
    /\ UNCHANGED <<downVars, seqVars, identVars, ingestVars>>

\* Any other request (a group, or a private one that does not name exactly
\* two members) inserts without a lookup.
CreateOther(p, t, ms) ==
    /\ create_call[p].pc = "idle"
    /\ ~(t = "private" /\ Len(ms) = 2)
    /\ FreshIds # {}
    /\ InsertConversation(NewId, t, UniqueMembers(ms))
    /\ create_response' =
          [type |-> t, members |-> UniqueMembers(ms),
           result |-> NewId, existing |-> FALSE, prior |-> NoConv]
    /\ UNCHANGED <<downVars, create_call, first_private_id, seqVars, identVars, ingestVars>>

\* psycopg2.Error in the insert: rollback, the handler answers INTERNAL.
CreateStoreError(p) ==
    /\ create_call[p].pc = "insert"
    /\ create_call' = [create_call EXCEPT ![p] = IdleCreateCall]
    /\ UNCHANGED <<downVars, storeVars, seqVars, create_response, first_private_id, identVars, ingestVars>>

(* ------------------------- user identities ----------------------------- *)
MaxExt == 1          \* external addresses NumUsers+1 .. NumUsers+MaxExt

NoExt == 0

\* External addresses (phone numbers, handles); a user-id is the address of
\* the internal channel.
ExternalIds == (NumUsers + 1)..(NumUsers + MaxExt)

Channels == {"delivery", "whatsapp", "instagram", "telegram"}

\* The channels a user may link through the API.
LinkChannels == {"whatsapp", "instagram", "telegram"}

\* Username shapes the consumer tells apart: "name", "whatsapp:<phone>",
\* "instagram:<handle>".
UsernamePrefixes == {"plain", "whatsapp", "instagram"}

NoUsername == [prefix |-> "", handle |-> NoExt]

Usernames ==
    {[prefix |-> "plain", handle |-> NoExt]} \cup
    {[prefix |-> x, handle |-> h] : x \in {"whatsapp", "instagram"}, h \in ExternalIds}

NoIdentities == [ch \in Channels |-> NoExt]

\* INSERT ... ON CONFLICT (user_id, channel) DO NOTHING, on one user's rows
InsertIfAbsent(ids, ch, ext) ==
    IF ids[ch] = NoExt THEN [ids EXCEPT ![ch] = ext] ELSE ids

\* process_user_created: the directory row, the 'delivery' binding and, for
\* a connector user, the binding of its channel; one transaction.  A
\* redelivered event carries the same username.
ProcessUserCreated(u, name) ==
    /\ users_directory[u] \in {NoUsername, name}
    /\ users_directory' = [users_directory EXCEPT ![u] = name]
    /\ user_identities' = [user_identities EXCEPT ![u] =
          LET withDelivery == InsertIfAbsent(user_identities[u], "delivery", u) IN
          IF name.prefix \in {"whatsapp", "instagram"}
          THEN InsertIfAbsent(withDelivery, name.prefix, name.handle)
          ELSE withDelivery]
    /\ UNCHANGED <<downVars, storeVars, seqVars, createVars, identities_response, ingestVars>>

\* add_identity: INSERT ... ON CONFLICT (user_id, channel) DO UPDATE
AddIdentity(u, ch, ext) ==
    /\ user_identities' = [user_identities EXCEPT ![u][ch] = ext]
    /\ user_identities' # user_identities
    /\ UNCHANGED <<downVars, storeVars, seqVars, createVars, users_directory, identities_response, ingestVars>>

\* get_user_identities: {channel: external_id} of the user's rows
get_user_identities(u) ==
    [ch \in {x \in Channels : user_identities[u][x] # NoExt} |-> user_identities[u][ch]]

NoIdentitiesResponse == [user_id |-> 0, identities |-> <<>>]

\* GetUserIdentities(user_id): the handler answers with the rows read.
GetUserIdentities(u) ==
    /\ identities_response' = [user_id |-> u, identities |-> get_user_identities(u)]
    /\ identities_response' # identities_response
    /\ UNCHANGED <<downVars, storeVars, seqVars, createVars, users_directory, user_identities, ingestVars>>

(* -------------------------- ingestion worker --------------------------- *)
NumWorkers == 2      \* ingestion worker instances
MaxSends   == 2      \* requests the API accepts (clock ticks)
NumSenders == 1      \* users 1..NumSenders send messages

Senders == 1..NumSenders

Workers == 1..NumWorkers

\* deque(maxlen=10000)
CacheCapacity == 10000

SubmittedEvent(m, c, u, t, chs) ==
    [message_id |-> m, conversation_id |-> c, sender_id |-> u, timestamp |-> t,
     status |-> "SENT", target_channels |-> chs]

NoEvent == SubmittedEvent(NoMsg, NoConv, 0, 0, {})

\* A request that names no target_channels.
NoChannelsRequested == {}

ApiChannelsNoDefault(req) == req

\* channels = request.target_channels if request.target_channels else ["delivery"]
ApiChannels(req) == IF req = {} THEN {"delivery"} ELSE req

IdleWorker == [pc |-> "poll", event |-> NoEvent, seq_num |-> NoSeq, cache |-> <<>>]

InDeque(q, x) == \E i \in 1..Len(q) : q[i] = x

\* deque.append with maxlen: the oldest entry falls out when full
DequeAppend(q, x) ==
    IF Len(q) < CacheCapacity THEN Append(q, x) ELSE Append(Tail(q), x)

MessageRow(e, seq) ==
    [conversation_id |-> e.conversation_id, sequence_number |-> seq,
     message_id |-> e.message_id, sender_id |-> e.sender_id,
     status |-> e.status, timestamp |-> e.timestamp]

SaveMessageAppend(rows, row) == rows \cup {row}

\* INSERT INTO messages: the table's key is (conversation_id,
\* sequence_number), so the write replaces the row at that key.
SaveMessage(rows, row) ==
    {r \in rows : ~(/\ r.conversation_id = row.conversation_id
                    /\ r.sequence_number = row.sequence_number)} \cup {row}

PersistedEventNoSeq(e, seq) ==
    [message_id |-> e.message_id, conversation_id |-> e.conversation_id,
     sender_id |-> e.sender_id, timestamp |-> e.timestamp, status |-> e.status,
     target_channels |-> e.target_channels, sequence_number |-> NoSeq]

\* event_proto.sequence_number = seq_num
PersistedEvent(e, seq) ==
    [message_id |-> e.message_id, conversation_id |-> e.conversation_id,
     sender_id |-> e.sender_id, timestamp |-> e.timestamp, status |-> e.status,
     target_channels |-> e.target_channels, sequence_number |-> seq]

\* POST /v1/messages: the idempotency key is the message-id, the timestamp is
\* the time of the request; the event goes to the submit topic.
SendMessage(m, c, u, req) ==
    /\ clock < MaxSends
    /\ clock' = clock + 1
    /\ submit_topic' = submit_topic \cup {SubmittedEvent(m, c, u, clock + 1, ApiChannels(req))}
    /\ UNCHANGED <<downVars, storeVars, seqVars, createVars, identVars,
                   persisted_topic, messages, worker>>

\* The bus hands an event of the topic to worker w (a first delivery or a
\* redelivery).  A message-id in the dedup deque is skipped; otherwise the
\* worker calls GetNextSequenceNumber, served by handler thread p.
IngestReceive(w, e, p) ==
    /\ worker[w].pc = "poll"
    /\ e \in submit_topic
    /\ IF InDeque(worker[w].cache, e.message_id)
       THEN UNCHANGED <<afterIngestVars, worker, seq_call>>
       ELSE /\ FreeThread(p)
            /\ \A q \in Procs : (q < p) => ~FreeThread(q)
            /\ seq_call' = [seq_call EXCEPT ![p] =
                  NewSeqCall(e.conversation_id, e.message_id, w)]
            /\ worker' = [worker EXCEPT ![w].pc = "await_seq", ![w].event = e]
    /\ UNCHANGED <<afterIngestVars, storeVars, seq_returned, createVars, identVars,
                   clock, submit_topic, persisted_topic, messages>>

\* The RPC answers with a status other than OK: the client raises, the
\* exception is logged and the worker goes on to the next event.
IngestSeqFailed(w, p) ==
    /\ worker[w].pc = "await_seq"
    /\ seq_call[p].caller = w
    /\ seq_call[p].pc = "done"
    /\ GrpcStatus(seq_call[p].error) # "OK"
    /\ seq_call' = [seq_call EXCEPT ![p] = IdleSeqCall]
    /\ worker' = [worker EXCEPT ![w].pc = "poll", ![w].event = NoEvent]
    /\ UNCHANGED <<afterIngestVars, storeVars, seq_returned, createVars, identVars,
                   clock, submit_topic, persisted_topic, messages>>

\* The RPC answers with seq_num; scylla_client.save_message(event, seq_num)
\* writes the row and the message-id joins the dedup deque.
IngestSave(w, p) ==
    /\ worker[w].pc = "await_seq"
    /\ seq_call[p].caller = w
    /\ seq_call[p].pc = "done"
    /\ GrpcStatus(seq_call[p].error) = "OK"
    /\ seq_call' = [seq_call EXCEPT ![p] = IdleSeqCall]
    /\ messages' = SaveMessage(messages, MessageRow(worker[w].event, seq_call[p].result))
    /\ worker' = [worker EXCEPT ![w].pc = "publish",
                                ![w].seq_num = seq_call[p].result,
                                ![w].cache = DequeAppend(@, worker[w].event.message_id)]
    /\ UNCHANGED <<downVars, storeVars, seq_returned, createVars, identVars,
                   clock, submit_topic, persisted_topic>>

\* ... or save_message raises: nothing is written, logged, next event.
IngestSaveError(w, p) ==
    /\ worker[w].pc = "await_seq"
    /\ seq_call[p].caller = w
    /\ seq_call[p].pc = "done"
    /\ GrpcStatus(seq_call[p].error) = "OK"
    /\ seq_call' = [seq_call EXCEPT ![p] = IdleSeqCall]
    /\ worker' = [worker EXCEPT ![w].pc = "poll", ![w].event = NoEvent]
    /\ UNCHANGED <<afterIngestVars, storeVars, seq_returned, createVars, identVars,
                   clock, submit_topic, persisted_topic, messages>>

\* producer.send_proto of the event with its sequence_number set.
IngestPublish(w) ==
    /\ worker[w].pc = "publish"
    /\ persisted_topic' = persisted_topic \cup
          {PersistedEvent(worker[w].event, worker[w].seq_num)}
    /\ worker' = [worker EXCEPT ![w].pc = "poll", ![w].event = NoEvent,
                                ![w].seq_num = NoSeq]
    /\ UNCHANGED <<afterIngestVars, storeVars, seqVars, createVars, identVars,
                   clock, submit_topic, messages>>

\* ... or send_proto raises: logged, next event.
IngestPublishError(w) ==
    /\ worker[w].pc = "publish"
    /\ worker' = [worker EXCEPT ![w].pc = "poll", ![w].event = NoEvent,
                                ![w].seq_num = NoSeq]
    /\ UNCHANGED <<afterIngestVars, storeVars, seqVars, createVars, identVars,
                   clock, submit_topic, persisted_topic, messages>>

\* The worker process is started again between two events: the dedup deque
\* is empty.
IngestRestart(w) ==
    /\ worker[w].pc = "poll"
    /\ worker[w].cache # <<>>
    /\ worker' = [worker EXCEPT ![w] = IdleWorker]
    /\ UNCHANGED <<downVars, storeVars, seqVars, createVars, identVars,
                   clock, submit_topic, persisted_topic, messages>>

\* ConsumerWrapper.consume around the worker's loop body: the body catches
\* every exception, so the generator is resumed whichever way the body ended
\* and commits the record.
IngestCommit(e, outcome) ==
    ingest_committed' = ingest_committed \cup {[event |-> e, outcome |-> outcome]}

(* -------------------------- fan-out dispatcher ------------------------- *)
MaxDeliveries == 2   \* distinct instants of the message log's now()

\* The topic each channel's jobs go to (the defaults of the environment).
\* No topic is configured for telegram.
CHANNEL_TOPIC_MAP_OneTopic ==
    [ch \in {"delivery", "whatsapp", "instagram"} |-> "connector.delivery.outbound.v1"]

CHANNEL_TOPIC_MAP ==
    [ch \in {"delivery", "whatsapp", "instagram"} |->
        IF ch = "delivery" THEN "connector.delivery.outbound.v1"
        ELSE IF ch = "whatsapp" THEN "connector.whatsapp.outbound.v1"
        ELSE "connector.instagram.outbound.v1"]

Topics == {CHANNEL_TOPIC_MAP[ch] : ch \in DOMAIN CHANNEL_TOPIC_MAP}

\* The delivery worker's TOPIC_CONSUME: the deployment points it at the
\* topic of the delivery channel.
DeliveryWorkerTopic == CHANNEL_TOPIC_MAP["delivery"]

\* The channel sets a producer may put in target_channels; the empty one is
\* an event whose field was left unset.
RequestedChannelSets ==
    {{}, {"delivery"}, {"whatsapp"}, {"telegram"}, {"whatsapp", "instagram"}, {"all"}}

\* resolve_target_channels(requested_channels, available_identities)
resolve_target_channels(requested, identities) ==
    LET target_set == IF "all" \in requested THEN DOMAIN identities ELSE requested
    IN  [ch \in {x \in target_set : x \in DOMAIN identities} |-> identities[ch]]

JobIdNoChannel(m, r, ch) == <<m, r>>

\* uuid.uuid5(NAMESPACE_DNS, f"{message_id}:{member_id}:{channel}"): a
\* name-based id.  The three fields hold no colon, so the name determines
\* the triple; distinct names are taken to hash to distinct ids.
JobId(m, r, ch) == <<m, r, ch>>

DeliveryJob(e, r, ch) ==
    [job_id |-> JobId(e.message_id, r, ch), message_id |-> e.message_id,
     conversation_id |-> e.conversation_id, recipient_id |-> r, channel |-> ch,
     payload |-> e, key |-> r]

MembersWithSender(e) == conversation_members[e.conversation_id]

\* for member_id in members: if member_id == sender_id: continue
FanoutRecipients(e) ==
    {r \in conversation_members[e.conversation_id] : r # e.sender_id}

\* The channels a member gets a job on: none when it has no identities,
\* else the resolved routes that have a topic.
FanoutRoutes(e, r) ==
    LET identities == get_user_identities(r) IN
    IF DOMAIN identities = {} THEN {}
    ELSE {ch \in DOMAIN resolve_target_channels(e.target_channels, identities) :
             ch \in DOMAIN CHANNEL_TOPIC_MAP}

FanoutJobs(e) ==
    {DeliveryJob(e, p[1], p[2]) :
        p \in {q \in FanoutRecipients(e) \X Channels : q[2] \in FanoutRoutes(e, q[1])}}

\* The ingestion worker has sequenced, stored and published message m (its
\* first and only persisted event).
IngestedEvent(m, c, u, chs) ==
    /\ conv_type[c] # "none"
    /\ \A e \in persisted_topic : e.message_id # m
    /\ LET seq == last_sequence_number[c] + 1
           e   == SubmittedEvent(m, c, u, clock, chs)
       IN  /\ last_sequence_number' = [last_sequence_number EXCEPT ![c] = seq]
           /\ message_sequences_log' = message_sequences_log \cup {LogRow(m, c, seq)}
           /\ messages' = SaveMessage(messages, MessageRow(e, seq))
           /\ persisted_topic' = persisted_topic \cup {PersistedEvent(e, seq)}
    /\ UNCHANGED <<conv_type, conversation_members, seqVars, createVars, identVars,
                   clock, submit_topic, worker, downVars>>

\* One pass of the dispatcher's loop body over a persisted event (a first
\* delivery or a redelivery of it).
FanoutDispatch(e) ==
    /\ e \in persisted_topic
    /\ outbound_topic' =
          [t \in Topics |-> outbound_topic[t] \cup
              {j \in FanoutJobs(e) : CHANNEL_TOPIC_MAP[j.channel] = t}]
    /\ dispatched' = dispatched \cup {e}
    /\ replayed' = IF e \in dispatched THEN replayed \cup {e} ELSE replayed
    /\ UNCHANGED <<storeVars, seqVars, createVars, identVars, ingestVars,
                   handled_jobs, user_inbox, push_topic, socketVars, statusVars,
                   ingest_committed, delivery_position,
                   delivery_committed, delivery_outcomes, sessionVars>>

\* ... or a lookup (get_conversation_members, get_user_identities) or a
\* send_proto raises after the jobs in done were published: the exception is
\* logged by the loop body.
FanoutDispatchError(e, done) ==
    /\ e \in persisted_topic
    /\ done \subseteq FanoutJobs(e) /\ done # FanoutJobs(e)
    /\ outbound_topic' =
          [t \in Topics |-> outbound_topic[t] \cup
              {j \in done : CHANNEL_TOPIC_MAP[j.channel] = t}]
    /\ UNCHANGED <<storeVars, seqVars, createVars, identVars, ingestVars,
                   dispatched, replayed,
                   handled_jobs, user_inbox, push_topic, socketVars, statusVars,
                   ingest_committed, delivery_position,
                   delivery_committed, delivery_outcomes, sessionVars>>

\* ConsumerWrapper.consume around the dispatcher's loop body, which catches
\* every exception: the generator is resumed and commits the record.
FanoutCommit(e, outcome) ==
    /\ fanout_committed' = fanout_committed \cup {[event |-> e, outcome |-> outcome]}
    /\ UNCHANGED delivery_log

(* --------------------------- delivery worker --------------------------- *)
\* INSERT INTO user_inbox ... VALUES (recipient, toTimestamp(now()), ...)
InboxRow(j, t) ==
    [user_id |-> j.recipient_id, created_at |-> t,
     conversation_id |-> j.conversation_id, message_id |-> j.message_id,
     sequence_number |-> j.payload.sequence_number,
     sender_id |-> j.payload.sender_id, status |-> "PENDING"]

InboxInsertSwallowed(rows, row) == rows

\* The table's key is (user_id, created_at, message_id): a write replaces
\* the row at that key only.
InboxInsert(rows, row) ==
    {r \in rows : ~(/\ r.user_id = row.user_id
                    /\ r.created_at = row.created_at
                    /\ r.message_id = row.message_id)} \cup {row}

\* payload.model_dump_json(), as published on user:<recipient>
MessagePayload(e) == [type |-> "MESSAGE", body |-> e]

PushEvent(j) ==
    [user_id |-> j.recipient_id, key |-> j.recipient_id,
     conversation_id |-> j.conversation_id, message_id |-> j.message_id]

\* PUBLISH channel payload: the subscriptions open now receive it; the
\* reply is their number.
Publish(u, payload) ==
    /\ pubsub' = pubsub \cup {[channel |-> u, payload |-> payload]}
    /\ sub_pending' = IF u \in subscribed
                      THEN [sub_pending EXCEPT ![u] = @ \cup {payload}]
                      ELSE sub_pending

\* The instants now() may return: the one of the last write or a later one.
Instants == {t \in {clock, clock + 1} : t >= 1 /\ t <= MaxDeliveries}

\* The reply of PUBLISH on user:<u>: the number of subscriptions it reached.
subscribers_count(u) == IF u \in subscribed THEN 1 ELSE 0

\* No reply: the PUBLISH was not made or raised.
NoReply == -1

PushFallbackAlways(j, subs) == push_topic \cup {PushEvent(j)}

\* if subscribers_count > 0: (log) else: send the push event
PushFallback(j, subs) ==
    IF subs > 0 THEN push_topic ELSE push_topic \cup {PushEvent(j)}

\* process_delivery_job: inbox row, publish, push when nobody is listening.
DeliverJob(j, t) ==
    /\ j \in outbound_topic[DeliveryWorkerTopic]
    /\ t \in Instants
    /\ clock' = t
    /\ user_inbox' = InboxInsert(user_inbox, InboxRow(j, t))
    /\ Publish(j.recipient_id, MessagePayload(j.payload))
    /\ push_topic' = PushFallback(j, subscribers_count(j.recipient_id))
    /\ handled_jobs' = handled_jobs \cup {j}
    /\ UNCHANGED <<storeVars, seqVars, createVars, identVars, submit_topic,
                   persisted_topic, messages, worker, dispatched, replayed,
                   outbound_topic, subscribed, socket_sent, statusVars,
                   ingest_committed, sessionVars>>

\* ... the inbox row is written and the publish raises: the handler raises,
\* the consumer logs it and takes the next job.
DeliverJobPublishError(j, t) ==
    /\ j \in outbound_topic[DeliveryWorkerTopic]
    /\ t \in Instants
    /\ clock' = t
    /\ user_inbox' = InboxInsert(user_inbox, InboxRow(j, t))
    /\ handled_jobs' = handled_jobs \cup {j}
    /\ UNCHANGED <<storeVars, seqVars, createVars, identVars, submit_topic,
                   persisted_topic, messages, worker, dispatched, replayed,
                   outbound_topic, push_topic, socketVars, statusVars,
                   ingest_committed, sessionVars>>

\* ... the INSERT raises: the handler raises before any publish; nothing is
\* written.
DeliverJobInboxError(j) ==
    /\ j \in outbound_topic[DeliveryWorkerTopic]
    /\ UNCHANGED <<storeVars, seqVars, createVars, identVars, ingestVars,
                   dispatched, replayed, outbound_topic, handled_jobs, user_inbox,
                   push_topic, socketVars, statusVars, ingest_committed, sessionVars>>

\* ... nobody is listening and the send of the push event raises: the row
\* is written, the payload published, no push event is on the topic.
DeliverJobPushError(j, t) ==
    /\ j \in outbound_topic[DeliveryWorkerTopic]
    /\ t \in Instants
    /\ subscribers_count(j.recipient_id) = 0
    /\ clock' = t
    /\ user_inbox' = InboxInsert(user_inbox, InboxRow(j, t))
    /\ Publish(j.recipient_id, MessagePayload(j.payload))
    /\ handled_jobs' = handled_jobs \cup {j}
    /\ UNCHANGED <<storeVars, seqVars, createVars, identVars, submit_topic,
                   persisted_topic, messages, worker, dispatched, replayed,
                   outbound_topic, push_topic, subscribed, socket_sent, statusVars,
                   ingest_committed, sessionVars>>

\* The connector of an external channel takes a job from its topic: the
\* bytes are no MessageSentEvent keyword arguments, the error is logged.
ConnectorConsume(j) ==
    /\ \E t \in Topics \ {DeliveryWorkerTopic} : j \in outbound_topic[t]
    /\ j \notin handled_jobs
    /\ handled_jobs' = handled_jobs \cup {j}
    /\ UNCHANGED <<storeVars, seqVars, createVars, identVars, ingestVars,
                   dispatched, replayed, outbound_topic, user_inbox, push_topic,
                   socketVars, statusVars, ingest_committed,
                   offsetVars, sessionVars>>

(* ------------------- the delivery worker's consumer -------------------- *)
MaxLog == 3          \* records the delivery worker's partition holds

\* The orders in which the jobs of one dispatch reach the partition.
Orderings(jobs) ==
    {q \in [1..Cardinality(jobs) -> jobs] : \A j \in jobs : \E i \in DOMAIN q : q[i] = j}

\* producer.send_proto(topic=target_topic, ...) for the jobs of event e that
\* go to the delivery worker's topic.
ProduceJobs(e) ==
    LET jobs == {j \in FanoutJobs(e) : CHANNEL_TOPIC_MAP[j.channel] = DeliveryWorkerTopic}
    IN  /\ Len(delivery_log) + Cardinality(jobs) <= MaxLog
        /\ \E q \in Orderings(jobs) : delivery_log' = delivery_log \o q

\* async for msg in self.consumer
HasNextRecord == delivery_position < Len(delivery_log)

NextRecord == delivery_log[delivery_position + 1]

\* How the handling of the record in hand ended and, when the PUBLISH was
\* made, its reply.
ConsumeOutcome(outcome, subs) ==
    [offset |-> delivery_position + 1, outcome |-> outcome, subs |-> subs]

\* await self.consumer.commit(): the position after the record in hand
CommitPosition == delivery_position + 1

\* await callback(msg.value); await self.consumer.commit()
ConsumeCommit ==
    /\ delivery_position' = delivery_position + 1
    /\ delivery_committed' = CommitPosition
    /\ delivery_outcomes' = delivery_outcomes \cup
          {ConsumeOutcome("ok", subscribers_count(NextRecord.recipient_id))}
    /\ UNCHANGED <<delivery_log, fanout_committed>>

\* except Exception: the error is logged, nothing is committed and the loop
\* takes the next record.
ConsumeLogError(outcome) ==
    /\ delivery_position' = delivery_position + 1
    /\ delivery_outcomes' = delivery_outcomes \cup
          {ConsumeOutcome(outcome, IF outcome = "push_failed" THEN 0 ELSE NoReply)}
    /\ UNCHANGED <<delivery_log, delivery_committed, fanout_committed>>

\* The worker is started again: it resumes after the committed offset, or,
\* the group having committed nothing, at the end of the partition
\* (auto_offset_reset='latest').
ConsumerRestart ==
    /\ delivery_position' = IF delivery_committed = 0 THEN Len(delivery_log)
                            ELSE delivery_committed
    /\ delivery_position' # delivery_position
    /\ UNCHANGED <<storeVars, seqVars, createVars, identVars, ingestVars, fanoutVars,
                   socketVars, statusVars, ingest_committed, delivery_log,
                   delivery_committed, delivery_outcomes, fanout_committed, sessionVars>>

(* ---------------------------- socket gateway --------------------------- *)
\* websocket_endpoint up to pubsub.subscribe(channel)
Subscribe(u) ==
    /\ u \notin subscribed
    /\ subscribed' = subscribed \cup {u}
    /\ UNCHANGED <<storeVars, seqVars, createVars, identVars, ingestVars,
                   fanoutVars, pubsub, sub_pending, socket_sent, statusVars,
                   ingest_committed, offsetVars, sessionVars>>

\* The session ends: unsubscribe; what the subscription held is dropped.
Unsubscribe(u) ==
    /\ u \in subscribed
    /\ subscribed' = subscribed \ {u}
    /\ sub_pending' = [sub_pending EXCEPT ![u] = {}]
    /\ UNCHANGED <<storeVars, seqVars, createVars, identVars, ingestVars,
                   fanoutVars, pubsub, socket_sent, statusVars,
                   ingest_committed, offsetVars, sessionVars>>

\* message = pubsub.get_message(...); websocket.send_text(message["data"])
GatewayForward(u, payload) ==
    /\ u \in subscribed
    /\ payload \in sub_pending[u]
    /\ sub_pending' = [sub_pending EXCEPT ![u] = @ \ {payload}]
    /\ socket_sent' = [socket_sent EXCEPT ![u] = @ \cup {payload}]
    /\ UNCHANGED <<storeVars, seqVars, createVars, identVars, ingestVars,
                   fanoutVars, pubsub, subscribed, statusVars,
                   ingest_committed, offsetVars, sessionVars>>

(* ------------------- socket gateway, session by session ---------------- *)
MaxSessions == 2     \* websockets 1..MaxSessions
MaxTime == 2         \* instants 0..MaxTime of the gateway's clock

SessionIds == 1..MaxSessions

\* A bearer token as the gateway sees it: the subject, whether the signature
\* verifies under SECRET_KEY, and the exp claim.
Tokens == [sub : Users, signed : BOOLEAN, exp : 0..MaxTime]

NoToken == [sub |-> 0, signed |-> FALSE, exp |-> 0]

\* decode_access_token returned None
None == [sub |-> 0]

decode_access_token_NoExp(token, now) ==
    IF token.signed THEN [sub |-> token.sub] ELSE None

\* jwt.decode(token, SECRET_KEY, algorithms=[ALGORITHM]): JWTError on a bad
\* signature or an exp in the past; the payload otherwise.
decode_access_token(token, now) ==
    IF token.signed /\ ~(token.exp < now) THEN [sub |-> token.sub] ELSE None

NoSession ==
    [pc |-> "none", token |-> NoToken, presented_at |-> 0, user_id |-> 0,
     pending |-> {}, sent |-> {}]

\* The gateway holds session s: it has accepted and subscribed it and has
\* not torn it down.  pc is "gone" when the client has closed the socket and
\* the gateway's loop has not noticed.
Held(s) == sessions[s].pc \in {"listening", "gone"}

ConnectionsWithOnly(u, s) ==
    [x \in DOMAIN active_connections \cup {u} |->
        IF x = u THEN {s} ELSE active_connections[x]]

\* manager.connect: self.active_connections[user_id].append(websocket)
ConnectionsWith(u, s) ==
    [x \in DOMAIN active_connections \cup {u} |->
        (IF x \in DOMAIN active_connections THEN active_connections[x] ELSE {})
           \cup (IF x = u THEN {s} ELSE {})]

ConnectionsWithoutUser(u, s) ==
    [x \in DOMAIN active_connections \ {u} |-> active_connections[x]]

\* manager.disconnect: the websocket leaves its user's list; an empty list
\* is deleted.
ConnectionsWithout(u, s) ==
    LET keep == {x \in DOMAIN active_connections : active_connections[x] \ {s} # {} \/ x # u}
    IN  [x \in keep |-> IF x = u THEN active_connections[x] \ {s} ELSE active_connections[x]]

\* The gateway's clock advances.
Tick ==
    /\ clock < MaxTime
    /\ clock' = clock + 1
    /\ UNCHANGED <<storeVars, seqVars, createVars, identVars, submit_topic,
                   persisted_topic, messages, worker, downVars>>

\* websocket_endpoint(websocket, token) up to pubsub.subscribe(channel): a
\* token that does not decode closes the socket with 1008; otherwise the
\* socket is accepted, listed under the token's sub and subscribed to
\* user:<sub>.
Connect(s, token) ==
    LET payload == decode_access_token(token, clock) IN
    /\ sessions[s].pc = "none"
    /\ IF payload = None
       THEN /\ sessions' = [sessions EXCEPT ![s] =
                  [NoSession EXCEPT !.pc = "rejected", !.token = token,
                                    !.presented_at = clock]]
            /\ UNCHANGED active_connections
       ELSE /\ sessions' = [sessions EXCEPT ![s] =
                  [NoSession EXCEPT !.pc = "listening", !.token = token,
                                    !.presented_at = clock, !.user_id = payload.sub]]
            /\ active_connections' = ConnectionsWith(payload.sub, s)
    /\ UNCHANGED <<storeVars, seqVars, createVars, identVars, ingestVars, fanoutVars,
                   socketVars, statusVars, ingest_committed, offsetVars>>

\* The client closes its socket.  The gateway's loop only awaits
\* pubsub.get_message and websocket.send_text, never a receive: nothing in
\* it runs on the close.
ClientDisconnect(s) ==
    /\ sessions[s].pc = "listening"
    /\ sessions' = [sessions EXCEPT ![s].pc = "gone"]
    /\ UNCHANGED <<storeVars, seqVars, createVars, identVars, ingestVars, fanoutVars,
                   socketVars, statusVars, ingest_committed, offsetVars,
                   active_connections>>

PublishToSessionsAll(u, payload) ==
    /\ Publish(u, payload)
    /\ [channel |-> u, payload |-> payload] \notin pubsub
    /\ sessions' = [s \in SessionIds |->
          IF Held(s) THEN [sessions[s] EXCEPT !.pending = @ \cup {payload}]
          ELSE sessions[s]]
    /\ UNCHANGED <<storeVars, seqVars, createVars, identVars, ingestVars, fanoutVars,
                   subscribed, socket_sent, statusVars, ingest_committed, offsetVars,
                   active_connections>>

\* PUBLISH on user:<u> with sessions listening: each subscription on the
\* channel receives the payload.
PublishToSessions(u, payload) ==
    /\ Publish(u, payload)
    /\ [channel |-> u, payload |-> payload] \notin pubsub
    /\ sessions' = [s \in SessionIds |->
          IF Held(s) /\ sessions[s].user_id = u
          THEN [sessions[s] EXCEPT !.pending = @ \cup {payload}]
          ELSE sessions[s]]
    /\ UNCHANGED <<storeVars, seqVars, createVars, identVars, ingestVars, fanoutVars,
                   subscribed, socket_sent, statusVars, ingest_committed, offsetVars,
                   active_connections>>

\* message = await pubsub.get_message(...); await websocket.send_text(data)
SessionForward(s, payload) ==
    /\ sessions[s].pc = "listening"
    /\ payload \in sessions[s].pending
    /\ sessions' = [sessions EXCEPT ![s].pending = @ \ {payload},
                                    ![s].sent = @ \cup {payload}]
    /\ UNCHANGED <<storeVars, seqVars, createVars, identVars, ingestVars, fanoutVars,
                   socketVars, statusVars, ingest_committed, offsetVars,
                   active_connections>>

\* The send raises (WebSocketDisconnect or another error): manager.disconnect
\* and, in the finally block, pubsub.unsubscribe(channel).
SessionForwardError(s, payload) ==
    /\ Held(s)
    /\ payload \in sessions[s].pending
    /\ sessions' = [sessions EXCEPT ![s].pc = "closed", ![s].pending = {}]
    /\ active_connections' = ConnectionsWithout(sessions[s].user_id, s)
    /\ UNCHANGED <<storeVars, seqVars, createVars, identVars, ingestVars, fanoutVars,
                   socketVars, statusVars, ingest_committed, offsetVars>>

(* --------------------------- status processor -------------------------- *)
MaxStatusEvents == 2   \* status events the API accepts

\* UpdateStatusRequest.status: ^(DELIVERED|READ)$
ReportedStatuses == {"DELIVERED", "READ"}

\* The event update_message_status publishes (event_id and timestamp, which
\* no consumer reads back, are left out).
StatusEvent(user, row, st) ==
    [message_id |-> row.message_id, conversation_id |-> row.conversation_id,
     sequence_number |-> row.sequence_number, user_id |-> user,
     sender_id |-> row.sender_id, status |-> st]

\* PATCH /v1/messages/status by user: the conversation, sequence, message
\* and sender are the request's (given here as a row); the event goes to
\* the status topic.
UpdateMessageStatus(user, row, st) ==
    /\ Cardinality(status_topic) < MaxStatusEvents
    /\ status_topic' = status_topic \cup {StatusEvent(user, row, st)}
    /\ status_topic' # status_topic
    /\ UNCHANGED <<storeVars, seqVars, createVars, identVars, ingestVars,
                   fanoutVars, socketVars, status_done,
                   ingest_committed, offsetVars, sessionVars>>

StatusRank(st) == IF st = "SENT" THEN 1 ELSE IF st = "DELIVERED" THEN 2 ELSE 3

\* UPDATE messages SET status = st WHERE conversation_id = c AND
\* sequence_number = seq: the status cell of that key is written whatever it
\* held; with no row at the key the write makes one whose other columns
\* are null.
SetStatus(rows, c, seq, st) ==
    IF \E r \in rows : r.conversation_id = c /\ r.sequence_number = seq
    THEN {IF r.conversation_id = c /\ r.sequence_number = seq
          THEN [r EXCEPT !.status = st] ELSE r : r \in rows}
    ELSE rows \cup {[conversation_id |-> c, sequence_number |-> seq,
                     message_id |-> NoMsg, sender_id |-> 0, status |-> st,
                     timestamp |-> 0]}

StatusNotification(e) ==
    [type |-> "STATUS_UPDATE",
     body |-> [conversation_id |-> e.conversation_id, message_id |-> e.message_id,
               status |-> e.status, read_by |-> e.user_id]]

NotifyAlways(e) == TRUE

\* if proto_event.sender_id != proto_event.user_id
ShouldNotify(e) == e.sender_id # e.user_id

Handled(e, outcome) == [event |-> e, outcome |-> outcome]

\* process_event: the update, then the notification of the sender.
ProcessStatus(e) ==
    /\ e \in status_topic
    /\ messages' = SetStatus(messages, e.conversation_id, e.sequence_number, e.status)
    /\ IF ShouldNotify(e)
       THEN Publish(e.sender_id, StatusNotification(e))
       ELSE UNCHANGED <<pubsub, sub_pending>>
    /\ status_done' = status_done \cup {Handled(e, "ok")}
    /\ UNCHANGED <<storeVars, seqVars, createVars, identVars, clock, submit_topic,
                   persisted_topic, worker, fanoutVars, subscribed, socket_sent,
                   status_topic, ingest_committed, offsetVars, sessionVars>>

\* ... the update raises: process_event logs it and returns, nothing is
\* published and the consumer commits.
ProcessStatusUpdateError(e) ==
    /\ e \in status_topic
    /\ status_done' = status_done \cup {Handled(e, "update_failed")}
    /\ status_done' # status_done
    /\ UNCHANGED <<storeVars, seqVars, createVars, identVars, ingestVars,
                   fanoutVars, socketVars, status_topic,
                   ingest_committed, offsetVars, sessionVars>>

\* ... the update is done and the publish raises: logged, committed.
ProcessStatusPublishError(e) ==
    /\ e \in status_topic
    /\ ShouldNotify(e)
    /\ messages' = SetStatus(messages, e.conversation_id, e.sequence_number, e.status)
    /\ status_done' = status_done \cup {Handled(e, "publish_failed")}
    /\ UNCHANGED <<storeVars, seqVars, createVars, identVars, clock, submit_topic,
                   persisted_topic, worker, fanoutVars, socketVars, status_topic,
                   ingest_committed, offsetVars, sessionVars>>

(* ----------------------------------------------------------------------- *)
EmptyStore ==
    /\ conv_type = [c \in ConvIds |-> "none"]
    /\ last_sequence_number = [c \in ConvIds |-> 0]
    /\ conversation_members = [c \in ConvIds |-> {}]
    /\ message_sequences_log = {}

\* The store after conversations 1..n have been created (a private chat of
\* users 1 and 2 each time it is the first, groups after that).
StoreWithConversations(n) ==
    /\ conv_type = [c \in ConvIds |-> IF c <= n THEN (IF c = 1 THEN "private" ELSE "group")
                                      ELSE "none"]
    /\ last_sequence_number = [c \in ConvIds |-> 0]
    /\ conversation_members = [c \in ConvIds |-> IF c <= n THEN {1, 2} ELSE {}]
    /\ message_sequences_log = {}

NoIdentityRows ==
    /\ users_directory = [u \in Users |-> NoUsername]
    /\ user_identities = [u \in Users |-> NoIdentities]
    /\ identities_response = NoIdentitiesResponse

IngestionIdle ==
    /\ clock = 0
    /\ submit_topic = {}
    /\ persisted_topic = {}
    /\ messages = {}
    /\ worker = [w \in Workers |-> IdleWorker]

DownstreamIdle ==
    /\ dispatched = {}
    /\ replayed = {}
    /\ outbound_topic = [t \in Topics |-> {}]
    /\ handled_jobs = {}
    /\ user_inbox = {}
    /\ push_topic = {}
    /\ pubsub = {}
    /\ subscribed = {}
    /\ sub_pending = [u \in Users |-> {}]
    /\ socket_sent = [u \in Users |-> {}]
    /\ status_topic = {}
    /\ status_done = {}
    /\ ingest_committed = {}
    /\ delivery_log = <<>>
    /\ fanout_committed = {}
    /\ delivery_position = 0
    /\ delivery_committed = 0
    /\ delivery_outcomes = {}
    /\ sessions = [s \in SessionIds |-> NoSession]
    /\ active_connections = <<>>

InitSeq ==
    /\ \E n \in 1..(MaxConvs - 1) : StoreWithConversations(n)
    /\ seq_call = [p \in Procs |-> IdleSeqCall]
    /\ seq_returned = {}
    /\ create_call = [p \in Procs |-> IdleCreateCall]
    /\ create_response = NoResponse
    /\ first_private_id = [k \in PrivatePairs |-> NoConv]
    /\ NoIdentityRows
    /\ IngestionIdle
    /\ DownstreamIdle

NextSeq ==
    \/ \E p \in Procs, c \in ConvIds, m \in MsgIds : SeqBegin(p, c, m)
    \/ \E p \in Procs : SeqSelect(p)
    \/ \E p \in Procs : SeqUpdate(p)
    \/ \E p \in Procs : SeqInsert(p)
    \/ \E p \in Procs : SeqCommit(p)
    \/ \E p \in Procs : SeqStoreError(p)

SpecSeq == InitSeq /\ [][NextSeq]_vars

InitConv ==
    /\ EmptyStore
    /\ seq_call = [p \in Procs |-> IdleSeqCall]
    /\ seq_returned = {}
    /\ create_call = [p \in Procs |-> IdleCreateCall]
    /\ create_response = NoResponse
    /\ first_private_id = [k \in PrivatePairs |-> NoConv]
    /\ NoIdentityRows
    /\ IngestionIdle
    /\ DownstreamIdle

NextConv ==
    \/ \E p \in Procs, ms \in MemberLists : CreatePrivateFind(p, ms)
    \/ \E p \in Procs : CreatePrivateInsert(p)
    \/ \E p \in Procs, t \in ConvTypes, ms \in MemberLists : CreateOther(p, t, ms)
    \/ \E p \in Procs : CreateStoreError(p)

SpecConv == InitConv /\ [][NextConv]_vars

InitIdent == InitConv

NextIdent ==
    \/ \E u \in Users, name \in Usernames : ProcessUserCreated(u, name)
    \/ \E u \in Users, ch \in LinkChannels, ext \in ExternalIds : AddIdentity(u, ch, ext)
    \/ \E u \in Users : GetUserIdentities(u)

SpecIdent == InitIdent /\ [][NextIdent]_vars

InitIngest == InitSeq

NextIngest ==
    \/ \E m \in MsgIds, c \in ConvIds, u \in Senders :
          SendMessage(m, c, u, NoChannelsRequested)
    \/ \E w \in Workers, e \in submit_topic, p \in Procs :
          /\ IngestReceive(w, e, p)
          /\ IF InDeque(worker[w].cache, e.message_id)
             THEN IngestCommit(e, "skipped") ELSE UNCHANGED ingest_committed
    \/ \E w \in Workers, p \in Procs :
          IngestSeqFailed(w, p) /\ IngestCommit(worker[w].event, "failed")
    \/ \E w \in Workers, p \in Procs : IngestSave(w, p)
    \/ \E w \in Workers, p \in Procs :
          IngestSaveError(w, p) /\ IngestCommit(worker[w].event, "failed")
    \/ \E w \in Workers : IngestPublish(w) /\ IngestCommit(worker[w].event, "ok")
    \/ \E w \in Workers :
          IngestPublishError(w) /\ IngestCommit(worker[w].event, "failed")
    \/ \E w \in Workers : IngestRestart(w)
    \/ \E p \in Procs : SeqSelect(p)
    \/ \E p \in Procs : SeqUpdate(p)
    \/ \E p \in Procs : SeqInsert(p)
    \/ \E p \in Procs : SeqCommit(p)
    \/ \E p \in Procs : SeqStoreError(p)

SpecIngest == InitIngest /\ [][NextIngest]_vars

\* The submit topic is keyed by conversation-id: the events of a conversation
\* are in one partition, and a consumer is handed a record only when the
\* records before it are committed and the record itself is not.  A record
\* not yet committed can be handed to a second worker while the first still
\* holds it (the partition was reassigned).
InPartitionOrder(e) ==
    /\ \A h \in ingest_committed : h.event # e
    /\ \A e1 \in submit_topic :
          (e1.conversation_id = e.conversation_id /\ e1.timestamp < e.timestamp)
             => \E h \in ingest_committed : h.event = e1

\* Ingestion of messages each submitted once, records consumed in the order
\* of their partition.
NextOrder ==
    \/ \E m \in MsgIds, c \in ConvIds, u \in Senders :
          /\ \A e \in submit_topic : e.message_id # m
          /\ SendMessage(m, c, u, NoChannelsRequested)
    \/ \E w \in Workers, e \in submit_topic, p \in Procs :
          /\ InPartitionOrder(e)
          /\ IngestReceive(w, e, p)
          /\ IF InDeque(worker[w].cache, e.message_id)
             THEN IngestCommit(e, "skipped") ELSE UNCHANGED ingest_committed
    \/ \E w \in Workers, p \in Procs :
          IngestSeqFailed(w, p) /\ IngestCommit(worker[w].event, "failed")
    \/ \E w \in Workers, p \in Procs : IngestSave(w, p)
    \/ \E w \in Workers, p \in Procs :
          IngestSaveError(w, p) /\ IngestCommit(worker[w].event, "failed")
    \/ \E w \in Workers : IngestPublish(w) /\ IngestCommit(worker[w].event, "ok")
    \/ \E w \in Workers :
          IngestPublishError(w) /\ IngestCommit(worker[w].event, "failed")
    \/ \E w \in Workers : IngestRestart(w)
    \/ \E p \in Procs : SeqSelect(p)
    \/ \E p \in Procs : SeqUpdate(p)
    \/ \E p \in Procs : SeqInsert(p)
    \/ \E p \in Procs : SeqCommit(p)
    \/ \E p \in Procs : SeqStoreError(p)

SpecOrder == InitIngest /\ [][NextOrder]_vars

(* ------------------- fan-out, delivery and the gateway ----------------- *)
\* The rows of a user created through the auth service who has then linked
\* the channels of set links.
BoundTo(u, links) ==
    [ch \in Channels |-> IF ch = "delivery" THEN u
                         ELSE IF ch \in links THEN NumUsers + 1 ELSE NoExt]

\* A private conversation of users 1 and 2 and a group of users 1, 2, 3.
StoreWithGroup ==
    /\ conv_type = [c \in ConvIds |-> IF c = 1 THEN "private" ELSE "group"]
    /\ last_sequence_number = [c \in ConvIds |-> 0]
    /\ conversation_members = [c \in ConvIds |-> IF c = 1 THEN {1, 2} ELSE {1, 2, 3}]
    /\ message_sequences_log = {}

\* User 1 has its delivery binding, user 2 has it and any linked channels,
\* or no row yet; user 3 has its delivery binding or no row yet.
InitFanout ==
    /\ StoreWithGroup
    /\ seq_call = [p \in Procs |-> IdleSeqCall]
    /\ seq_returned = {}
    /\ create_call = [p \in Procs |-> IdleCreateCall]
    /\ create_response = NoResponse
    /\ first_private_id = [k \in PrivatePairs |-> NoConv]
    /\ \E ids2 \in {NoIdentities} \cup {BoundTo(2, l) : l \in SUBSET LinkChannels},
          ids3 \in {NoIdentities, BoundTo(3, {})} :
          /\ user_identities = [u \in Users |->
                IF u = 2 THEN ids2 ELSE IF u = 3 THEN ids3 ELSE BoundTo(u, {})]
          /\ users_directory = [u \in Users |->
                IF user_identities[u] = NoIdentities THEN NoUsername
                ELSE [prefix |-> "plain", handle |-> NoExt]]
    /\ identities_response = NoIdentitiesResponse
    /\ IngestionIdle
    /\ DownstreamIdle

NextFanout ==
    \/ \E m \in MsgIds, c \in ConvIds, u \in Senders, chs \in RequestedChannelSets :
          IngestedEvent(m, c, u, chs)
    \/ \E e \in persisted_topic : FanoutDispatch(e) /\ UNCHANGED <<delivery_log, fanout_committed>>

SpecFanout == InitFanout /\ [][NextFanout]_vars

\* The channel sets requested in the runs that go on to delivery.
DeliveryChannelSets == {{"delivery"}, {"whatsapp"}, {"all"}}

NumSessionUsers == 1   \* users 2..(1 + NumSessionUsers) open gateway sessions
MaxDelivered == 1      \* messages 1..MaxDelivered are followed to delivery

SessionUsers == 2..(1 + NumSessionUsers)

InitDelivery == InitFanout

NextDelivery ==
    \/ \E m \in 1..MaxDelivered, c \in ConvIds, u \in Senders, chs \in DeliveryChannelSets :
          IngestedEvent(m, c, u, chs)
    \/ \E e \in persisted_topic : FanoutDispatch(e) /\ UNCHANGED <<delivery_log, fanout_committed>>
    \/ \E j \in outbound_topic[DeliveryWorkerTopic], t \in Instants :
          DeliverJob(j, t) /\ UNCHANGED offsetVars
    \/ \E j \in outbound_topic[DeliveryWorkerTopic], t \in Instants :
          DeliverJobPublishError(j, t) /\ UNCHANGED offsetVars
    \/ \E j \in outbound_topic[DeliveryWorkerTopic], t \in Instants :
          DeliverJobPushError(j, t) /\ UNCHANGED offsetVars
    \/ \E t \in Topics : \E j \in outbound_topic[t] : ConnectorConsume(j)
    \/ \E u \in SessionUsers : Subscribe(u)
    \/ \E u \in SessionUsers : Unsubscribe(u)
    \/ \E u \in SessionUsers : \E payload \in sub_pending[u] : GatewayForward(u, payload)

SpecDelivery == InitDelivery /\ [][NextDelivery]_vars

(* ------------------- delivery, offset by offset ------------------------ *)
\* Every user has its delivery binding; the delivery topic has one partition.
InitConsumer ==
    /\ StoreWithGroup
    /\ seq_call = [p \in Procs |-> IdleSeqCall]
    /\ seq_returned = {}
    /\ create_call = [p \in Procs |-> IdleCreateCall]
    /\ create_response = NoResponse
    /\ first_private_id = [k \in PrivatePairs |-> NoConv]
    /\ user_identities = [u \in Users |-> BoundTo(u, {})]
    /\ users_directory = [u \in Users |-> [prefix |-> "plain", handle |-> NoExt]]
    /\ identities_response = NoIdentitiesResponse
    /\ IngestionIdle
    /\ DownstreamIdle

NextConsumer ==
    \/ \E m \in 1..MaxDelivered, c \in ConvIds, u \in Senders :
          IngestedEvent(m, c, u, {"delivery"})
    \/ \E e \in persisted_topic : FanoutDispatch(e) /\ ProduceJobs(e) /\ UNCHANGED fanout_committed
    \/ \E t \in Instants : HasNextRecord /\ DeliverJob(NextRecord, t) /\ ConsumeCommit
    \/ /\ HasNextRecord
       /\ DeliverJobInboxError(NextRecord)
       /\ ConsumeLogError("inbox_failed")
    \/ \E t \in Instants :
          /\ HasNextRecord
          /\ DeliverJobPublishError(NextRecord, t)
          /\ ConsumeLogError("publish_failed")
    \/ \E t \in Instants :
          /\ HasNextRecord
          /\ DeliverJobPushError(NextRecord, t)
          /\ ConsumeLogError("push_failed")
    \/ ConsumerRestart
    \/ \E u \in SessionUsers : Subscribe(u)
    \/ \E u \in SessionUsers : Unsubscribe(u)

SpecConsumer == InitConsumer /\ [][NextConsumer]_vars

\* The dispatcher with its failures and the commits of its consumer.
NextFanoutCommit ==
    \/ \E m \in 1..MaxDelivered, c \in ConvIds, u \in Senders, chs \in RequestedChannelSets :
          IngestedEvent(m, c, u, chs)
    \/ \E e \in persisted_topic : FanoutDispatch(e) /\ FanoutCommit(e, "ok")
    \/ \E e \in persisted_topic : \E done \in SUBSET FanoutJobs(e) :
          FanoutDispatchError(e, done) /\ FanoutCommit(e, "failed")

SpecFanoutCommit == InitFanout /\ [][NextFanoutCommit]_vars

(* ------------------ the whole pipeline, without faults ----------------- *)
\* A record of the submit topic that no worker has been handed yet.
Untaken(e) ==
    /\ \A w \in Workers : worker[w].event # e
    /\ \A h \in ingest_committed : h.event # e

\* The API keys every event by its conversation-id, so the events of one
\* conversation sit in one partition: its owner takes them in the order
\* they were produced, the next one once the previous one is done.
NextInPartition(e) ==
    /\ Untaken(e)
    /\ \A w \in Workers : worker[w].pc = "poll"
    /\ \A e2 \in submit_topic : Untaken(e2) => e.timestamp <= e2.timestamp

InitOnline == InitConsumer

\* User 1 sends to the private conversation once user 2's session is
\* subscribed, one request per message-id.
OnlineSend ==
    \E m \in MsgIds :
       /\ SessionUsers \subseteq subscribed
       /\ \A e \in submit_topic : e.message_id # m
       /\ SendMessage(m, 1, 1, NoChannelsRequested)

\* The consumers' steps when nothing fails: every record is handed to its
\* consumer once.
OnlinePipeline ==
    \/ \E w \in Workers, e \in submit_topic, p \in Procs :
          NextInPartition(e) /\ IngestReceive(w, e, p) /\ UNCHANGED ingest_committed
    \/ \E p \in Procs : SeqSelect(p)
    \/ \E p \in Procs : SeqUpdate(p)
    \/ \E p \in Procs : SeqInsert(p)
    \/ \E p \in Procs : SeqCommit(p)
    \/ \E w \in Workers, p \in Procs : IngestSave(w, p)
    \/ \E w \in Workers : IngestPublish(w) /\ IngestCommit(worker[w].event, "ok")
    \/ \E e \in persisted_topic \ dispatched : FanoutDispatch(e) /\ UNCHANGED <<delivery_log, fanout_committed>>
    \/ \E j \in outbound_topic[DeliveryWorkerTopic] \ handled_jobs, t \in Instants :
          DeliverJob(j, t) /\ UNCHANGED offsetVars
    \/ \E u \in SessionUsers : \E payload \in sub_pending[u] : GatewayForward(u, payload)

NextOnline ==
    \/ \E u \in SessionUsers : Subscribe(u)
    \/ OnlineSend
    \/ OnlinePipeline

\* Every consumer keeps polling: a step that stays possible is taken.
SpecOnline == InitOnline /\ [][NextOnline]_vars /\ WF_vars(OnlinePipeline)

(* ----------------------- gateway, session by session ------------------- *)
\* The payloads published on the users' channels while sessions come and go.
GatewayPayloads ==
    {MessagePayload(PersistedEvent(SubmittedEvent(m, 1, 1, 0, {"delivery"}), m)) :
        m \in 1..MaxDelivered}

InitGateway == InitConsumer

NextGateway ==
    \/ Tick
    \/ \E s \in SessionIds, token \in Tokens : Connect(s, token)
    \/ \E u \in Users, payload \in GatewayPayloads : PublishToSessions(u, payload)
    \/ \E s \in SessionIds : \E payload \in sessions[s].pending : SessionForward(s, payload)
    \/ \E s \in SessionIds : \E payload \in sessions[s].pending :
          SessionForwardError(s, payload)
    \/ \E s \in SessionIds : ClientDisconnect(s)

SpecGateway == InitGateway /\ [][NextGateway]_vars

\* The loop of a session keeps polling its subscription: a payload it holds
\* is sent, or the send fails.
GatewayLoop(s) ==
    \E payload \in sessions[s].pending :
       SessionForward(s, payload) \/ SessionForwardError(s, payload)

SpecGatewayLive == SpecGateway /\ \A s \in SessionIds : WF_vars(GatewayLoop(s))

(* ----------------------------- status flow ---------------------------- *)
\* Message 1 of user 2 has been ingested into the group at sequence 1.
InitStatus ==
    /\ conv_type = [c \in ConvIds |-> IF c = 1 THEN "private" ELSE "group"]
    /\ last_sequence_number = [c \in ConvIds |-> IF c = MaxConvs THEN 1 ELSE 0]
    /\ conversation_members = [c \in ConvIds |-> IF c = 1 THEN {1, 2} ELSE {1, 2, 3}]
    /\ message_sequences_log = {LogRow(1, MaxConvs, 1)}
    /\ seq_call = [p \in Procs |-> IdleSeqCall]
    /\ seq_returned = {}
    /\ create_call = [p \in Procs |-> IdleCreateCall]
    /\ create_response = NoResponse
    /\ first_private_id = [k \in PrivatePairs |-> NoConv]
    /\ user_identities = [u \in Users |-> BoundTo(u, {})]
    /\ users_directory = [u \in Users |-> [prefix |-> "plain", handle |-> NoExt]]
    /\ identities_response = NoIdentitiesResponse
    /\ clock = 0
    /\ submit_topic = {}
    /\ persisted_topic = {}
    /\ messages = {MessageRow(SubmittedEvent(1, MaxConvs, 2, 0, {"delivery"}), 1)}
    /\ worker = [w \in Workers |-> IdleWorker]
    /\ DownstreamIdle

NextStatus ==
    \/ \E user \in Users, row \in messages, st \in ReportedStatuses :
          UpdateMessageStatus(user, row, st)
    \/ \E e \in status_topic : ProcessStatus(e)
    \/ \E e \in status_topic : ProcessStatusUpdateError(e)
    \/ \E e \in status_topic : ProcessStatusPublishError(e)
    \/ \E u \in SessionUsers : Subscribe(u)
    \/ \E u \in SessionUsers : Unsubscribe(u)
    \/ \E u \in SessionUsers : \E payload \in sub_pending[u] : GatewayForward(u, payload)

SpecStatus == InitStatus /\ [][NextStatus]_vars

\* The row the status events are about, and the events users can report.
ReportedRow == MessageRow(SubmittedEvent(1, MaxConvs, 2, 0, {"delivery"}), 1)

AllStatusEvents ==
    {StatusEvent(u, ReportedRow, st) : u \in Users, st \in ReportedStatuses}

\* A request may name any sequence: this one was never assigned in the
\* conversation.
UnassignedRow == MessageRow(SubmittedEvent(2, MaxConvs, 2, 0, {"delivery"}), 2)

NextStatusAny ==
    \/ NextStatus
    \/ \E user \in Users, st \in ReportedStatuses :
          UpdateMessageStatus(user, UnassignedRow, st)

SpecStatusAny == InitStatus /\ [][NextStatusAny]_vars

\* The gateway's loop keeps polling an open subscription: a payload it holds
\* is sent unless the session ends.
SpecStatusLive ==
    /\ SpecStatus
    /\ \A u \in SessionUsers : \A e \in AllStatusEvents :
          WF_vars(GatewayForward(u, StatusNotification(e)))

(* ======================= sequencer properties ========================== *)
NoOutage(p) == seq_call[p].error # "OperationalError"

C1_State ==
    /\ \A p \in Procs : seq_call[p].prior # {} =>
          /\ seq_call[p].pc \in {"select", "done"}
          /\ (seq_call[p].pc = "done" /\ NoOutage(p)) =>
                /\ seq_call[p].error = ""
                /\ seq_call[p].prior = {seq_call[p].result}
    /\ \A r1, r2 \in message_sequences_log :
          r1.message_id = r2.message_id => r1 = r2

C1_Step ==
    /\ message_sequences_log \subseteq message_sequences_log'
    /\ \A p \in Procs :
          (seq_call[p].prior # {} /\ seq_call'[p] # seq_call[p]
             /\ seq_call'[p].pc = "done")
          => last_sequence_number' = last_sequence_number

\* C1: once next_sequence(C, M) has returned s, every call next_sequence(C, M)
\* begun later returns s again, never enters the increment path, leaves C's
\* counter alone; the log holds at most one row per message-id and rows are
\* never changed or removed.
C1_IdempotentSequence == [](C1_State) /\ [][C1_Step]_vars

\* A repeated call has returned the stored sequence while another message-id
\* has been sequenced as well.
C1_Witness ==
    \E p \in Procs :
       /\ seq_call[p].pc = "done"
       /\ seq_call[p].error = ""
       /\ seq_call[p].prior = {seq_call[p].result}
       /\ \E r \in message_sequences_log : r.message_id # seq_call[p].message_id

\* C2: two distinct message-ids sequenced in the same conversation never
\* hold the same sequence, whatever the interleaving; two messages sent to
\* an empty conversation get {1, 2}.
C2_DistinctSequences ==
    /\ \A r1, r2 \in message_sequences_log :
          (r1.conversation_id = r2.conversation_id /\ r1.message_id # r2.message_id)
          => r1.sequence_number # r2.sequence_number
    /\ \A c \in ConvIds :
          Cardinality({r \in message_sequences_log : r.conversation_id = c}) = 2
          => AssignedSequences(c) = {1, 2}

\* Two handler threads have each sequenced a different message of the same
\* conversation.
C2_Witness ==
    \E p, q \in Procs :
       /\ p # q
       /\ seq_call[p].pc = "done" /\ seq_call[q].pc = "done"
       /\ seq_call[p].conversation_id = seq_call[q].conversation_id
       /\ seq_call[p].message_id # seq_call[q].message_id
       /\ {seq_call[p].result, seq_call[q].result} = {1, 2}
       /\ seq_call[p].prior = {} /\ seq_call[q].prior = {}

C3_State ==
    \A c \in ConvIds : AssignedSequences(c) = 1..last_sequence_number[c]

C3_Step ==
    \A c \in ConvIds : last_sequence_number'[c] >= last_sequence_number[c]

\* C3: the sequences logged for a conversation are exactly
\* 1..last_sequence_number, the counter never decreases, and a call that
\* fails or is rolled back leaves neither a gap nor an orphan increment.
C3_DenseSequences == [](C3_State) /\ [][C3_Step]_vars

\* A call was rolled back after it had incremented the counter (its INSERT
\* hit the key of the log) in a conversation that has sequences assigned.
C3_Witness ==
    \E p \in Procs :
       /\ seq_call[p].pc = "done"
       /\ seq_call[p].error = "UniqueViolation"
       /\ last_sequence_number[seq_call[p].conversation_id] >= 1

\* C4: two calls next_sequence(C, M) for the same not-yet-logged M that run
\* concurrently both return the same sequence number (and the counter grows
\* by one).
C4_SameMessageSerializable ==
    \A p, q \in Procs :
       (/\ seq_call[p].pc = "done" /\ seq_call[q].pc = "done"
        /\ seq_call[p].conversation_id = seq_call[q].conversation_id
        /\ seq_call[p].message_id = seq_call[q].message_id
        /\ conv_type[seq_call[p].conversation_id] # "none"
        /\ NoOutage(p) /\ NoOutage(q))
       => /\ seq_call[p].error = "" /\ seq_call[q].error = ""
          /\ seq_call[p].result = seq_call[q].result

CallOnMissingConversation(p) ==
    /\ seq_call[p].pc # "idle"
    /\ conv_type[seq_call[p].conversation_id] = "none"

C6_RepeatedPrivateSameId ==
    create_response.prior # NoConv =>
       /\ create_response.result = create_response.prior
       /\ create_response.existing

\* C7: at most one private conversation has the member set {a, b}, also
\* when two requests for it run concurrently.
C7_OnePrivatePerPair ==
    \A k \in PrivatePairs :
       Cardinality({c \in ConvIds : conv_type[c] = "private"
                                     /\ conversation_members[c] = k}) <= 1

\* C8: a private request is answered with an existing conversation only if
\* that conversation is private and its member set is exactly the
\* request's {a, b}.
C8_ExistingOnlyIfExactPair ==
    create_response.existing =>
       /\ conv_type[create_response.result] = "private"
       /\ conversation_members[create_response.result] = create_response.members

(* ====================== identity properties ============================ *)
\* C9: every GetUserIdentities(u) response contains the binding
\* delivery -> u, also before u's user-created event was consumed and after
\* any add_identity calls.
C9_DeliveryAlwaysBound ==
    identities_response # NoIdentitiesResponse =>
       /\ "delivery" \in DOMAIN identities_response.identities
       /\ identities_response.identities["delivery"] = identities_response.user_id

(* ====================== ingestion properties =========================== *)
\* Every event submitted with message-id m names the same conversation.
OneConversationFor(m) ==
    \A e1, e2 \in submit_topic :
       (e1.message_id = m /\ e2.message_id = m)
       => e1.conversation_id = e2.conversation_id

RowsOf(m) == {r \in messages : r.message_id = m}

LoggedMessages(c) ==
    {r.message_id : r \in {x \in message_sequences_log : x.conversation_id = c}}

\* C10: however often the submitted event of (M, C) is delivered, to one
\* worker or to several, M has at most one message row, that row sits at the
\* one sequence the log holds for M, it is there once an ingestion of M got
\* as far as publishing, and C's counter has grown by one per logged
\* message-id.
C10_ExactlyOnceEffects ==
    /\ \A m \in MsgIds : OneConversationFor(m) =>
          /\ Cardinality(RowsOf(m)) <= 1
          /\ Cardinality(LogLookup(m)) <= 1
          /\ \A r \in RowsOf(m) :
                LogRow(m, r.conversation_id, r.sequence_number) \in message_sequences_log
          /\ (\E e \in persisted_topic : e.message_id = m) => Cardinality(RowsOf(m)) = 1
    /\ \A c \in ConvIds : last_sequence_number[c] = Cardinality(LoggedMessages(c))

\* The same message-id has been ingested by two workers (it is in both
\* dedup deques), the event having been delivered to each, and it has one
\* row and one increment.
C10_Witness ==
    \E m \in MsgIds, w1, w2 \in Workers :
       /\ w1 # w2
       /\ InDeque(worker[w1].cache, m) /\ InDeque(worker[w2].cache, m)
       /\ OneConversationFor(m)
       /\ Cardinality(RowsOf(m)) = 1
       /\ \E c \in ConvIds : LoggedMessages(c) = {m} /\ last_sequence_number[c] = 1

(* ==================== replay and delivery properties =================== *)
\* C11: replaying a request (same idempotency key, same conversation) leaves
\* the message row of that message-id as it was: no step changes a column
\* of an existing row of the same message-id and conversation.
C11_ReplaySameRow ==
    [][\A r \in messages : \A r2 \in messages' :
          (r2.message_id = r.message_id /\ r2.conversation_id = r.conversation_id)
          => r2 = r]_vars

AllJobs == UNION {outbound_topic[t] : t \in Topics}

JobsOf(e) == {j \in AllJobs : j.payload = e}

NonSenderMembers(e) == conversation_members[e.conversation_id] \ {e.sender_id}

HasInboxRow(u, m) == \E row \in user_inbox : row.user_id = u /\ row.message_id = m

\* Nothing is left to consume: every persisted event has been dispatched
\* and every job has been taken by the consumer of its topic.
Quiescent ==
    /\ persisted_topic # {}
    /\ dispatched = persisted_topic
    /\ AllJobs \subseteq handled_jobs

\* C12: once the pipeline is quiescent, every member of the conversation
\* other than the sender has an inbox row for the message, whatever channels
\* were requested.
C12_InboxAfterQuiescence ==
    Quiescent =>
       \A e \in persisted_topic : \A r \in NonSenderMembers(e) :
          HasInboxRow(r, e.message_id)

\* C13: there is at most one inbox row per (recipient, message-id).
C13_OneInboxRowPerMessage ==
    \A r1, r2 \in user_inbox :
       (r1.user_id = r2.user_id /\ r1.message_id = r2.message_id) => r1 = r2

\* C16: no delivery job has the sender of its payload as its recipient.
C16_EchoSuppression ==
    \A j \in AllJobs : j.recipient_id # j.payload.sender_id

\* An event asking for all channels, sent by a member who has a delivery
\* binding, has been dispatched and has produced jobs.
C16_Witness ==
    \E e \in dispatched :
       /\ "all" \in e.target_channels
       /\ e.sender_id \in conversation_members[e.conversation_id]
       /\ user_identities[e.sender_id]["delivery"] # NoExt
       /\ JobsOf(e) # {}

\* The channels the specification targets for member r of event e.
SpecTarget(e, r) ==
    LET keys == {ch \in Channels : user_identities[r][ch] # NoExt} IN
    IF "all" \in e.target_channels THEN keys ELSE e.target_channels \cap keys

\* C17: the (recipient, channel) pairs of the jobs of a dispatched event are
\* exactly the pairs (m, c) with m a member other than the sender and c a
\* targeted channel of m, for every channel a user can bind.
C17_ExactJobSet ==
    \A e \in dispatched :
       {<<j.recipient_id, j.channel>> : j \in JobsOf(e)}
          = {p \in NonSenderMembers(e) \X Channels : p[2] \in SpecTarget(e, p[1])}

C20_WhatsappIsolation ==
    \A e \in persisted_topic :
       e.target_channels = {"whatsapp"} =>
          \A r \in NonSenderMembers(e) :
             /\ MessagePayload(e) \notin sub_pending[r]
             /\ MessagePayload(e) \notin socket_sent[r]
             /\ [channel |-> r, payload |-> MessagePayload(e)] \notin pubsub

\* A whatsapp-only message has produced a job for a recipient who has bound
\* whatsapp and has a live subscription, and the job has been consumed.
C20_Witness ==
    \E e \in dispatched : \E j \in JobsOf(e) :
       /\ e.target_channels = {"whatsapp"}
       /\ j.channel = "whatsapp"
       /\ j \in handled_jobs
       /\ j.recipient_id \in subscribed
       /\ user_identities[j.recipient_id]["whatsapp"] # NoExt

(* ========================= status properties =========================== *)
SameCell(r, r2) ==
    r.conversation_id = r2.conversation_id /\ r.sequence_number = r2.sequence_number

\* C14: the status of a message row is SENT, DELIVERED or READ and no step
\* lowers it under SENT < DELIVERED < READ.
C14_StatusNeverDecreases ==
    /\ [](\A r \in messages : r.status \in {"SENT", "DELIVERED", "READ"})
    /\ [][\A r \in messages : \A r2 \in messages' :
             SameCell(r, r2) => StatusRank(r2.status) >= StatusRank(r.status)]_vars

ConsumedStatus == {h.event : h \in status_done}

HandledStatus == {h.event : h \in {x \in status_done : x.outcome = "ok"}}

StatusPublications == {p \in pubsub : p.payload.type = "STATUS_UPDATE"}

\* A notification is published only for an event whose reporter is not the
\* sender, on the sender's channel, with the event's fields.
NotifiedOnlySender ==
    \A p \in StatusPublications :
       \E e \in ConsumedStatus :
          /\ e.sender_id # e.user_id
          /\ p.channel = e.sender_id
          /\ p.payload = StatusNotification(e)

NotifiedEach(events) ==
    \A e \in events :
       e.sender_id # e.user_id =>
          [channel |-> e.sender_id, payload |-> StatusNotification(e)] \in pubsub

\* The step that handles event e to the end leaves its row with e's status.
RowTakesStatus ==
    \A e \in status_topic :
       (Handled(e, "ok") \notin status_done /\ Handled(e, "ok") \in status_done')
       => \E r \in messages' : SameCell(r, e) /\ r.status = e.status

\* A notification held by a subscription is sent down the socket unless the
\* session ends.
NotificationReachesSession ==
    \A u \in SessionUsers : \A e \in AllStatusEvents :
       (StatusNotification(e) \in sub_pending[u])
          ~> (StatusNotification(e) \in socket_sent[u] \/ u \notin subscribed)

C21_WhatsappOnlyInbox ==
    Quiescent =>
       \A e \in persisted_topic :
          e.target_channels = {"whatsapp"} =>
             \A r \in NonSenderMembers(e) :
                user_identities[r]["whatsapp"] # NoExt => HasInboxRow(r, e.message_id)

\* The record a consumer outcome is about.
RecordAt(h) == delivery_log[h.offset]

\* A push event is on the topic only for a job one of whose runs got the
\* reply 0, with the job's recipient as key and the job's ids as data.
PushOnlyIfNobodyListening ==
    \A ev \in push_topic :
       \E h \in delivery_outcomes : ev = PushEvent(RecordAt(h)) /\ h.subs = 0

MessagePublications == {p \in pubsub : p.payload.type = "MESSAGE"}

C27_State ==
    /\ \A p \in MessagePublications : HasInboxRow(p.channel, p.payload.body.message_id)
    /\ \A ev \in push_topic : HasInboxRow(ev.user_id, ev.message_id)

C27_Step ==
    \A row \in user_inbox :
       \E r2 \in user_inbox' : r2.user_id = row.user_id /\ r2.message_id = row.message_id

\* C27: whenever a message payload has been published on user:<r>, or a push
\* event for it, the inbox row of (r, message-id) is there; an inbox row,
\* once written, stays, also when the handler stops before the publish.
C27_WriteAhead == [](C27_State) /\ [][C27_Step]_vars

\* The handling of one job stopped between the inbox write and the publish:
\* its row is there and nothing was published for it; another job was
\* published and pushed.
C27_Witness ==
    /\ \E h \in delivery_outcomes :
          /\ h.outcome = "publish_failed"
          /\ HasInboxRow(RecordAt(h).recipient_id, RecordAt(h).message_id)
          /\ [channel |-> RecordAt(h).recipient_id,
              payload |-> MessagePayload(RecordAt(h).payload)] \notin pubsub
    /\ MessagePublications # {}
    /\ push_topic # {}

OutcomesAt(k) == {h.outcome : h \in {x \in delivery_outcomes : x.offset = k}}

\* C28: the committed offset does not pass a record whose inbox write failed
\* until that record has been handled successfully.
C28_NoCommitPastFailedWrite ==
    \A k \in 1..delivery_committed :
       "inbox_failed" \in OutcomesAt(k) => "ok" \in OutcomesAt(k)

\* C29: a job whose publish or push send failed after the inbox write has
\* its offset committed by that run and is not handed to the handler again.
C29_PublishFailureCommitted ==
    [][\A h \in delivery_outcomes' \ delivery_outcomes :
          h.outcome \in {"publish_failed", "push_failed"}
             => delivery_committed' >= h.offset]_vars

(* ===================== ingestion consumer properties =================== *)
CommittedAs(outcomes) == {h.event : h \in {x \in ingest_committed : x.outcome \in outcomes}}

HasPersistedEvent(m) == \E e \in persisted_topic : e.message_id = m

\* C25: the offset of a submitted event that was not skipped as a duplicate
\* is committed only when its sequence is logged, its row written and its
\* persisted event published.
C25_CommitOnlyAfterPublish ==
    \A e \in CommittedAs({"ok", "failed"}) :
       /\ LogLookup(e.message_id) # {}
       /\ RowsOf(e.message_id) # {}
       /\ HasPersistedEvent(e.message_id)

\* The records of the dead-letter topic <topic>.dlq: no producer call names
\* such a topic.
DeadLetterTopic == {}

\* C26: a submitted event whose conversation does not exist is on the
\* dead-letter topic once its offset is committed.
C26_PoisonToDeadLetter ==
    \A e \in CommittedAs({"failed"}) :
       conv_type[e.conversation_id] = "none" => e \in DeadLetterTopic

\* C30: an event is skipped because its message-id is in the dedup deque
\* only when the message has its row and its persisted event.
C30_SkipOnlyAfterPersisted ==
    \A e \in CommittedAs({"skipped"}) :
       RowsOf(e.message_id) # {} /\ HasPersistedEvent(e.message_id)

(* ========================= gateway properties ========================== *)
\* The token of session s did not verify when it was presented.
PresentedInvalid(s) ==
    /\ sessions[s].pc # "none"
    /\ ~sessions[s].token.signed \/ sessions[s].token.exp < sessions[s].presented_at

Listed(s) == \E u \in DOMAIN active_connections : s \in active_connections[u]

C24_State ==
    \A s \in SessionIds :
       /\ PresentedInvalid(s) =>
             /\ sessions[s].pc = "rejected"
             /\ ~Listed(s)
             /\ sessions[s].pending = {} /\ sessions[s].sent = {}
       /\ sessions[s].pc = "listening" =>
             /\ sessions[s].user_id = sessions[s].token.sub
             /\ sessions[s].token.sub \in DOMAIN active_connections
             /\ s \in active_connections[sessions[s].token.sub]

C24_Step ==
    \A s \in SessionIds : sessions[s].pc = "rejected" => sessions'[s] = sessions[s]

\* C24: a session whose token is expired or does not verify is rejected when
\* it connects: it is never listed, never subscribed, never sent a payload,
\* and stays rejected; a listening session is listed under, and subscribed
\* to the channel of, its token's sub.
C24_RejectInvalidToken == [](C24_State) /\ [][C24_Step]_vars

\* A session with a signed but expired token for user u was rejected while
\* another session of u, its token valid, has been sent a payload published
\* on user:<u>.
C24_Witness ==
    \E s1, s2 \in SessionIds :
       /\ sessions[s1].pc = "rejected"
       /\ sessions[s1].token.signed
       /\ sessions[s1].token.exp < sessions[s1].presented_at
       /\ sessions[s2].pc = "listening"
       /\ sessions[s2].token.sub = sessions[s1].token.sub
       /\ sessions[s2].sent # {}

(* ======================= end-to-end properties ========================= *)
Submitted(m) == \E e \in submit_topic : e.message_id = m

PayloadsOf(u, m) ==
    {p \in socket_sent[u] : p.type = "MESSAGE" /\ p.body.message_id = m}

\* Message m of the private conversation has its row with status SENT at
\* its logged sequence, an inbox row for user 2, and user 2's session has
\* been sent one payload carrying it.
DeliveredOnline(m) ==
    /\ \E row \in messages :
          /\ row.message_id = m /\ row.status = "SENT"
          /\ LogRow(m, 1, row.sequence_number) \in message_sequences_log
          /\ row.sender_id = 1
    /\ HasInboxRow(2, m)
    /\ \E p \in PayloadsOf(2, m) :
          PayloadsOf(2, m) = {p} /\ p.body.sender_id = 1 /\ p.body.conversation_id = 1

\* The row of the first message submitted sits at sequence 1.
FirstAtOne ==
    \A r \in messages :
       (\A e \in submit_topic : r.timestamp <= e.timestamp) => r.sequence_number = 1

\* No payload is sent down a socket that has been sent it before.
SentOnce ==
    \A u \in Users : \A p \in sub_pending[u] :
       p \notin sub_pending'[u] => p \notin socket_sent[u]

\* C23: a message sent without target_channels to the private conversation
\* while the other member's session is subscribed is, without faults,
\* eventually stored with status SENT (at sequence 1 when it is the first),
\* has an inbox row for the recipient, and reaches the recipient's session
\* as one payload, sent once.
C23_OnlineDelivery ==
    /\ \A m \in MsgIds : Submitted(m) ~> DeliveredOnline(m)
    /\ [](FirstAtOne)
    /\ [][SentOnce]_vars

\* Both messages have been delivered to user 2's session and nothing was
\* pushed.
C23_Witness ==
    /\ \A m \in MsgIds : Submitted(m) /\ DeliveredOnline(m)
    /\ push_topic = {}

(* ================= dedup, cells and order of ingestion ================= *)
DedupIds(w) == {worker[w].cache[i] : i \in 1..Len(worker[w].cache)}

\* C31: every message-id in a worker's dedup deque has a persisted event on
\* the persisted topic.
C31_DedupOnlyAfterPublish ==
    \A w \in Workers : \A m \in DedupIds(w) : HasPersistedEvent(m)

\* C32: a write to a cell (conversation, sequence) of the messages table
\* leaves the row there as it was, and every row (C, s, M) is the log's
\* entry of M.
C32_CellKeepsMessage ==
    /\ [](\A r \in messages :
            LogRow(r.message_id, r.conversation_id, r.sequence_number)
               \in message_sequences_log)
    /\ [][\A r \in messages : \A r2 \in messages' : SameCell(r, r2) => r2 = r]_vars

\* C33: a step of the status processor (any step that is not an ingestion
\* write) keeps the keys of the messages table and every column but status.
C33_StatusOnlyColumn ==
    [][worker' = worker =>
          /\ \A r2 \in messages' : \E r \in messages : r2 = [r EXCEPT !.status = r2.status]
          /\ \A r \in messages : \E r2 \in messages' : SameCell(r, r2)]_vars

\* A persisted event carries the sequence the log holds for its message-id.
CarriesLoggedSequence(e) ==
    /\ e.sequence_number >= 1
    /\ \E r \in LogLookup(e.message_id) : r.sequence_number = e.sequence_number

\* C34: every persisted event carries a sequence >= 1 that is the log's
\* entry of its message-id, and in the step that publishes it the message
\* row of (conversation, sequence) is already in the messages table.
C34_PersistBeforePublish ==
    /\ [](\A e \in persisted_topic : CarriesLoggedSequence(e))
    /\ [][\A e \in persisted_topic' \ persisted_topic :
             \E row \in messages :
                /\ row.conversation_id = e.conversation_id
                /\ row.sequence_number = e.sequence_number]_vars

\* Two messages of one conversation have been published with sequences 1
\* and 2, their rows in place.
C34_Witness ==
    \E e1, e2 \in persisted_topic :
       /\ e1.conversation_id = e2.conversation_id
       /\ e1.sequence_number = 1 /\ e2.sequence_number = 2
       /\ \A e \in {e1, e2} : MessageRow(e, e.sequence_number) \in messages

(* ========================= dispatcher's commits ======================== *)
\* C35: when the offset of a persisted event is committed, every job of the
\* event (one per targeted non-sender member and channel) has been
\* published.
C35_CommitOnlyAfterAllJobs ==
    \A h \in fanout_committed : FanoutJobs(h.event) \subseteq AllJobs

(* ========================= order of a conversation ===================== *)
\* C36: of two messages of one conversation that are both sequenced, the
\* one submitted first has the smaller sequence, and a persisted event is
\* published with a sequence above those of the conversation's messages
\* published before it.
C36_SubmitOrderIsSequenceOrder ==
    /\ [](\A e1, e2 \in submit_topic :
            (e1.conversation_id = e2.conversation_id /\ e1.timestamp < e2.timestamp) =>
               \A r1 \in LogLookup(e1.message_id) : \A r2 \in LogLookup(e2.message_id) :
                  r1.sequence_number < r2.sequence_number)
    /\ [][\A e \in persisted_topic' \ persisted_topic : \A e0 \in persisted_topic :
             (e0.conversation_id = e.conversation_id /\ e0.message_id # e.message_id)
                => e0.sequence_number < e.sequence_number]_vars

(* ===================== gateway sessions, one by one ==================== *)
\* C38: a session whose client has closed it is eventually torn down by the
\* gateway: off its user's list and unsubscribed.
C38_ClosedSessionsLeave ==
    \A s \in SessionIds :
       (sessions[s].pc = "gone") ~> (sessions[s].pc = "closed" /\ ~Listed(s))

\* The sessions of user u the gateway holds.
HeldBy(u) == {s \in SessionIds : Held(s) /\ sessions[s].user_id = u}

PublishedNow(u, payload) ==
    [channel |-> u, payload |-> payload] \in pubsub' \ pubsub

C37_State ==
    /\ \A u \in Users :
          IF HeldBy(u) = {} THEN u \notin DOMAIN active_connections
          ELSE u \in DOMAIN active_connections /\ active_connections[u] = HeldBy(u)
    /\ \A s \in SessionIds : sessions[s].pending \cap sessions[s].sent = {}

C37_Step ==
    \A u \in Users : \A payload \in GatewayPayloads :
       PublishedNow(u, payload) =>
          \A s \in HeldBy(u) : payload \in sessions'[s].pending

ClosesNow(s) ==
    /\ sessions[s].pc # sessions'[s].pc
    /\ sessions'[s].pc \in {"gone", "closed"}

ListedUnder(u, s, conns) == u \in DOMAIN conns /\ s \in conns[u]

C39_Step ==
    /\ \A s \in SessionIds : ClosesNow(s) =>
          \A s2 \in SessionIds \ {s} :
             /\ sessions'[s2] = sessions[s2]
             /\ \A u \in Users :
                   ListedUnder(u, s2, active_connections)
                      <=> ListedUnder(u, s2, active_connections')
    /\ \A u \in Users : \A payload \in GatewayPayloads :
          (PublishedNow(u, payload) /\ \E s \in SessionIds : sessions[s].pc = "closed")
             => \A s2 \in HeldBy(u) : payload \in sessions'[s2].pending

\* C39: the step that closes a session leaves every other session, its
\* place in the lists and its subscription as they were, and a payload
\* published after a session was closed still reaches the other sessions.
C39_CloseIsLocal == [][C39_Step]_vars

\* One session of a user was closed on a failed send; the other session of
\* that user is still listed and has been sent the payload.
C39_Witness ==
    \E s1, s2 \in SessionIds :
       /\ sessions[s1].pc = "closed" /\ sessions[s1].sent = {}
       /\ sessions[s2].pc = "listening"
       /\ sessions[s2].user_id = sessions[s1].user_id
       /\ ListedUnder(sessions[s2].user_id, s2, active_connections)
       /\ sessions[s2].sent # {}

C40_State ==
    \A s \in SessionIds : \A payload \in sessions[s].pending \cup sessions[s].sent :
       [channel |-> sessions[s].token.sub, payload |-> payload] \in pubsub

C40_Step ==
    \A s \in SessionIds :
       /\ \A payload \in sessions'[s].pending \ sessions[s].pending :
             Held(s) /\ PublishedNow(sessions[s].token.sub, payload)
       /\ \A payload \in sessions'[s].sent \ sessions[s].sent :
             payload \in sessions[s].pending

\* C40: a session is sent only payloads its subscription received, and its
\* subscription receives a payload only in the step that publishes it on
\* user:<sub of the session's token>, the session being subscribed by then.
C40_ChannelIsolation == [](C40_State) /\ [][C40_Step]_vars

\* A payload was published on user:<u> before session s of u subscribed and
\* s never got it, while a session of another user has been sent the payload
\* published on its own channel.
C40_Witness ==
    \E s, s2 \in SessionIds : \E payload \in GatewayPayloads :
       /\ sessions[s].pc = "listening"
       /\ [channel |-> sessions[s].user_id, payload |-> payload] \in pubsub
       /\ payload \notin sessions[s].pending \cup sessions[s].sent
       /\ sessions[s2].user_id # sessions[s].user_id
       /\ sessions[s2].sent # {}

====
